---- MODULE Spec2Model ----
(***************************************************************************)
(* Tangle transport client (iota-streams-app, transport/tangle/client.rs). *)
(* Streams messages are wrapped into indexation payloads, attached to two  *)
(* tips and posted to a node; they are read back by index key, fetched     *)
(* concurrently and decoded.  The node, its ledger and the callers of the  *)
(* Transport trait are modelled as the environment.                        *)
(***************************************************************************)
EXTENDS Integers, Sequences, FiniteSets, TLC

\* ---------------------------------------------------------------- bounds
NumHandles == 2      \* Rc handles to the shared Client whose callers run concurrently
MaxLedger == 2       \* messages the node stores before callers stop posting
MaxBodyLen == 2      \* longest body handed to the codec on its own
MaxBatch == 2        \* most messages handed to send_messages on its own

\* ------------------------------------------------------------ value sets
Bytes == {1, 2, 171}
\* One Client is owned by its caller: its operations take &mut self, so the
\* borrow checker admits one at a time.  Another Client sits in an
\* Rc<RefCell<_>> and is reached through handles.
Owner == 0
Handles == 1..NumHandles
Tasks == {Owner} \cup Handles

\* TangleAddress { appinst, msgid }: both components have a fixed size.
TangleAddress(a, m) == [appinst |-> a, msgid |-> m]
Links == {TangleAddress(<<1>>, <<1>>), TangleAddress(<<1>>, <<171>>)}
NoLink == TangleAddress(<<>>, <<>>)

\* bodies sent through the transport, and bodies given to the codec alone
Bodies == {<<1, 2>>, <<171>>}
RECURSIVE SeqsUpTo(_)
SeqsUpTo(n) == IF n = 0 THEN {<< >>}
               ELSE LET S == SeqsUpTo(n - 1)
                    IN S \cup {Append(s, b) : s \in {x \in S : Len(x) = n - 1}, b \in Bytes}
CodecBodies == SeqsUpTo(MaxBodyLen)

\* --------------------------------------------------------------- results
\* Result<T>: Ok(v), Err(e); a panic (unwrap of an Err or of a None) ends
\* the call without any returned value.
Ok(v) == [tag |-> "Ok", err |-> "", val |-> v]
Err(e) == [tag |-> "Err", err |-> e, val |-> << >>]
Panic == [tag |-> "Panic", err |-> "", val |-> << >>]
NoResult == [tag |-> "None", err |-> "", val |-> << >>]

\* ------------------------------------------------------------------- hex
\* hex::encode: two lowercase hex digits (as character codes) per byte.
HexChar(n) == IF n < 10 THEN 48 + n ELSE 87 + n
HexEncode(b) == [i \in 1..(2 * Len(b)) |->
                   HexChar(IF i % 2 = 1 THEN b[(i + 1) \div 2] \div 16 ELSE b[i \div 2] % 16)]

\* hex::decode: fails on odd length or on a character that is no hex digit.
HexVal(c) == IF c \in 48..57 THEN c - 48
             ELSE IF c \in 97..102 THEN c - 87
             ELSE IF c \in 65..70 THEN c - 55
             ELSE -1
HexDecode(s) == IF Len(s) % 2 = 1 THEN Err("OddLength")
                ELSE IF \E i \in 1..Len(s) : HexVal(s[i]) = -1 THEN Err("InvalidHexCharacter")
                ELSE Ok([i \in 1..(Len(s) \div 2) |-> 16 * HexVal(s[2 * i - 1]) + HexVal(s[2 * i])])

\* [a, b].concat()
Concat_First(a, b) == a
Concat(a, b) == a \o b

\* ----------------------------------------------------------------- codec
\* Payload of a native message: Indexation, another kind, or none at all.
NoPayload == [kind |-> "None", index |-> << >>, data |-> << >>]

\* Indexation::new(index, data): the indexation payload keeps its data hex
\* encoded (payload wire format: data = hex(body bytes)).
IndexationNew(index, data) == [kind |-> "Indexation", index |-> index, data |-> HexEncode(data)]

\* index key the send path tags the message with
MakeBundleIndex_Swapped(address, tag) == HexEncode(Concat(tag, address))
MakeBundleIndex(address, tag) == HexEncode(Concat(address, tag))

\* MessageBuilder: parents and payload; make_bundle returns a one-message Vec.
make_bundle_AddressAsBody(address, tag, body, timestamp, trunk, branch) ==
    Ok(<< [payload |-> IndexationNew(MakeBundleIndex(address, tag), address),
           parent1 |-> trunk, parent2 |-> branch] >>)
make_bundle(address, tag, body, timestamp, trunk, branch) ==
    Ok(<< [payload |-> IndexationNew(MakeBundleIndex(address, tag), body),
           parent1 |-> trunk, parent2 |-> branch] >>)

msg_to_tangle_NoParents(msg, timestamp, trunk, branch) ==
    make_bundle(msg.link.appinst, msg.link.msgid, msg.body, timestamp, 0, 0)
msg_to_tangle(msg, timestamp, trunk, branch) ==
    make_bundle(msg.link.appinst, msg.link.msgid, msg.body, timestamp, trunk, branch)

\* BinaryMessage / TangleMessage
TangleMessage(link, body, timestamp) == [link |-> link, body |-> body, timestamp |-> timestamp]

msg_from_tangle_message_NoHex(message, link) ==
    IF message.payload.kind = "None" THEN Panic
    ELSE IF message.payload.kind = "Indexation"
         THEN Ok(TangleMessage(link, message.payload.data, 0))
         ELSE Err("Message is not a Indexation type")
msg_from_tangle_message(message, link) ==
    IF message.payload.kind = "None" THEN Panic
    ELSE IF message.payload.kind = "Indexation"
         THEN LET d == HexDecode(message.payload.data)
              IN IF d.tag = "Ok" THEN Ok(TangleMessage(link, d.val, 0)) ELSE Err(d.err)
         ELSE Err("Message is not a Indexation type")

\* ----------------------------------------------------------------- state
VARIABLES
    ledger,     \* the node's stored native messages; a message's id is its position (0: genesis)
    origin,     \* history: for each stored message, the link and body it was sent for
    ops,        \* per caller: the Transport operation in progress and where it is suspended
    borrowed,   \* RefCell borrow flag of the shared Client: 0, or the handle holding the RefMut
    last,       \* the operation that ended most recently, with what it returned
    codec       \* a direct call of the codec functions: inputs, native message, outcome

vars == <<ledger, origin, ops, borrowed, last, codec>>

NoMsg == [payload |-> NoPayload, parent1 |-> 0, parent2 |-> 0]
Foreign == [by |-> "foreign", link |-> NoLink, body |-> << >>]
Sent(link, body) == [by |-> "transport", link |-> link, body |-> body]

IdleOp == [pc |-> "idle", kind |-> "none", via |-> "owned", link |-> NoLink, body |-> << >>,
           tips |-> <<0, 0>>, bundle |-> << >>, pending |-> {}, ids |-> << >>, got |-> << >>,
           out |-> << >>, recv |-> NoResult, result |-> NoResult, busy |-> FALSE, nreq |-> 0,
           failed |-> FALSE, seen |-> 0]

IdleCodec == [stage |-> "none", link |-> NoLink, body |-> << >>, message |-> NoMsg, result |-> NoResult]

Init ==
    /\ ledger = << >>
    /\ origin = << >>
    /\ ops = [t \in Tasks |-> IdleOp]
    /\ borrowed = 0
    /\ last = IdleOp
    /\ codec = IdleCodec

\* ------------------------------------------------------------------ node
\* ids of the stored messages tagged with an index key, oldest first
NodeIndex(key) ==
    SelectSeq([i \in 1..Len(ledger) |-> i],
              LAMBDA i : ledger[i].payload.kind # "None" /\ ledger[i].payload.index = key)

\* current tips: the genesis or stored messages no stored message refers to
NodeTips == {i \in 0..Len(ledger) :
               \A j \in 1..Len(ledger) : ledger[j].parent1 # i /\ ledger[j].parent2 # i}

\* sends that still may post a message
Posting == {t \in Tasks : ops[t].pc \in {"get_tips", "post"}}
Room == Len(ledger) + Cardinality(Posting) < MaxLedger

\* ------------------------------------------------------------- receiving
\* index key the receive path looks up
GetMessagesIndex(tx_address, tx_tag) == HexEncode(Concat(tx_address, tx_tag))

\* get_messages after the index lookup answered with msg_ids
GetMessagesIds(msg_ids) == IF msg_ids = << >> THEN Err("Messade ids not found.") ELSE Ok(msg_ids)

\* get_messages after join_all collected msgs
GetMessagesMsgs_First(msgs) == IF msgs = << >> THEN Err("Messages not found.") ELSE Ok(<< msgs[1] >>)
GetMessagesMsgs(msgs) == IF msgs = << >> THEN Err("Messages not found.") ELSE Ok(msgs)

\* async_recv_messages: the match on get_messages' result
async_recv_messages_Propagate(gm, link) ==
    IF gm.tag = "Ok"
    THEN LET dec == [i \in 1..Len(gm.val) |-> msg_from_tangle_message(gm.val[i], link)]
         IN IF \E i \in 1..Len(dec) : dec[i].tag # "Ok" THEN Panic
            ELSE Ok([i \in 1..Len(dec) |-> dec[i].val])
    ELSE gm
async_recv_messages(gm, link) ==
    IF gm.tag = "Ok"
    THEN LET dec == [i \in 1..Len(gm.val) |-> msg_from_tangle_message(gm.val[i], link)]
         IN IF \E i \in 1..Len(dec) : dec[i].tag # "Ok" THEN Panic
            ELSE Ok([i \in 1..Len(dec) |-> dec[i].val])
    ELSE Ok(<< >>)

\* Client::recv_message after recv_messages returned r
ClientRecvMessage_SwappedErrors(r) ==
    IF r.tag # "Ok" THEN r
    ELSE IF Len(r.val) > 0
         THEN IF Len(r.val) = 1 THEN Ok(<< r.val[Len(r.val)] >>) ELSE Err("MessageLinkNotFound")
         ELSE Err("MessageNotUnique")
ClientRecvMessage(r) ==
    IF r.tag # "Ok" THEN r
    ELSE IF Len(r.val) > 0
         THEN IF Len(r.val) = 1 THEN Ok(<< r.val[Len(r.val)] >>) ELSE Err("MessageNotUnique")
         ELSE Err("MessageLinkNotFound")

\* Rc<RefCell<Client>>::recv_message after async_recv_messages returned r:
\* the result of try_or! is dropped, not returned
RcRecvMessage(r) ==
    IF r.tag # "Ok" THEN r
    ELSE IF Len(r.val) > 0
         THEN Ok(<< r.val[Len(r.val)] >>)
         ELSE Err("MessageLinkNotFound")

\* what the operation returns once get_messages has returned gm
RecvResult(o, gm) ==
    LET r == async_recv_messages(gm, o.link)
    IN IF o.kind = "recv_messages" THEN r
       ELSE IF o.via = "owned" THEN ClientRecvMessage(r) ELSE RcRecvMessage(r)

\* the operation of task t ends: its result is returned (or the call unwinds)
\* and the RefMut of a shared operation is dropped
Return_LeakOnError(t, o, r) ==
    /\ ops' = [ops EXCEPT ![t] = IdleOp]
    /\ last' = [o EXCEPT !.pc = "done", !.result = r]
    /\ borrowed' = IF o.via = "shared" /\ r.tag = "Ok" THEN 0 ELSE borrowed
Return(t, o, r) ==
    /\ ops' = [ops EXCEPT ![t] = IdleOp]
    /\ last' = [o EXCEPT !.pc = "done", !.result = r]
    /\ borrowed' = IF o.via = "shared" THEN 0 ELSE borrowed

\* the operation suspends at its next node request; the RefMut taken in the
\* match on try_borrow_mut lives through the await
Continue_Release(t, o) ==
    /\ ops' = [ops EXCEPT ![t] = o]
    /\ last' = last
    /\ borrowed' = IF o.via = "shared" THEN 0 ELSE borrowed
Continue(t, o) ==
    /\ ops' = [ops EXCEPT ![t] = o]
    /\ UNCHANGED <<last, borrowed>>

\* ------------------------------------------------------------ operations
\* history: an operation on the shared Client is in progress
SharedInProgress == \E u \in Tasks : ops[u].pc # "idle" /\ ops[u].via = "shared"

\* the operation starts and issues its first node request
Begin(kind, via, link, body) ==
    [IdleOp EXCEPT !.pc = IF kind = "send_message" THEN "get_tips" ELSE "index",
                   !.kind = kind, !.via = via, !.link = link, !.body = body, !.nreq = 1,
                   !.busy = (via = "shared" /\ SharedInProgress)]

\* the Err arm of the match on try_borrow_mut: the arguments are not used
Refused(kind) ==
    [IdleOp EXCEPT !.pc = "done", !.kind = kind, !.via = "shared",
                   !.busy = SharedInProgress, !.result = Err("TransportNotAvailable")]

\* the caller of the operation that ended has taken its result; the hand-over
\* touches nothing else, so it is taken before any other step
Resumed == last.pc = "idle"

\* the owned Client is free; callers of the shared Client are interchangeable:
\* a new one takes the lowest free handle
Startable(t) == Resumed /\ ops[t].pc = "idle" /\ \A u \in Handles : u < t => ops[u].pc # "idle"

Owned(t, kind, link, body) ==
    /\ ops' = [ops EXCEPT ![t] = Begin(kind, "owned", link, body)]
    /\ UNCHANGED <<last, borrowed>>

\* try_borrow_mut on the shared Client
TryBorrowMut_Always(t, kind, link, body) ==
    /\ borrowed' = t
    /\ ops' = [ops EXCEPT ![t] = Begin(kind, "shared", link, body)]
    /\ last' = last
TryBorrowMut(t, kind, link, body) ==
    IF borrowed = 0
    THEN /\ borrowed' = t
         /\ ops' = [ops EXCEPT ![t] = Begin(kind, "shared", link, body)]
         /\ last' = last
    ELSE /\ borrowed' = borrowed
         /\ ops' = ops
         /\ last' = Refused(kind)

ClientSendMessage(link, body) ==
    /\ Startable(Owner) /\ Room
    /\ Owned(Owner, "send_message", link, body)
    /\ UNCHANGED <<ledger, origin, codec>>

ClientRecvMessages(link) ==
    /\ Startable(Owner)
    /\ Owned(Owner, "recv_messages", link, << >>)
    /\ UNCHANGED <<ledger, origin, codec>>

ClientRecvMessageStart(link) ==
    /\ Startable(Owner)
    /\ Owned(Owner, "recv_message", link, << >>)
    /\ UNCHANGED <<ledger, origin, codec>>

RcSendMessage(t, link, body) ==
    /\ Startable(t) /\ Room
    /\ TryBorrowMut(t, "send_message", link, body)
    /\ UNCHANGED <<ledger, origin, codec>>

RcRecvMessages(t, link) ==
    /\ Startable(t)
    /\ TryBorrowMut(t, "recv_messages", link, << >>)
    /\ UNCHANGED <<ledger, origin, codec>>

RcRecvMessageStart(t, link) ==
    /\ Startable(t)
    /\ TryBorrowMut(t, "recv_message", link, << >>)
    /\ UNCHANGED <<ledger, origin, codec>>

\* join_all: the output of the k-th future goes to position k of the result,
\* and the joined future is ready once no future is outstanding
JoinAllStore_Arrival(results, pending, k, v) ==
    [results EXCEPT ![Len(results) - Cardinality(pending) + 1] = v]
JoinAllStore(results, pending, k, v) == [results EXCEPT ![k] = v]

JoinAllReady_First(pending) == TRUE
JoinAllReady(pending) == pending = {}

\* async_send_message_with_options resumes with the answer to get_tips
GetTipsResponse(t, ok, trunk, branch) ==
    LET o == ops[t]
        b == msg_to_tangle(TangleMessage(o.link, o.body, 0), 0, trunk, branch)
    IN /\ Resumed /\ o.pc = "get_tips"
       /\ trunk \in NodeTips /\ branch \in NodeTips
       /\ IF ok
          THEN Continue(t, [o EXCEPT !.pc = "post", !.tips = <<trunk, branch>>,
                                     !.bundle = b.val,
                                     !.pending = 1..Len(b.val),
                                     !.out = [i \in 1..Len(b.val) |-> 0],
                                     !.nreq = o.nreq + Len(b.val)])
          ELSE Return(t, [o EXCEPT !.failed = TRUE], Panic)
       /\ UNCHANGED <<ledger, origin, codec>>

\* send_messages: the answer to the k-th post_message
PostResponse(t, k, ok) ==
    LET o == ops[t]
        o2 == [o EXCEPT !.pending = o.pending \ {k},
                        !.out = JoinAllStore(o.out, o.pending, k, Len(ledger) + 1)]
    IN /\ Resumed /\ o.pc = "post"
       /\ k \in o.pending
       /\ IF ok
          THEN /\ ledger' = Append(ledger, o.bundle[k])
               /\ origin' = Append(origin, Sent(o.link, o.body))
               /\ IF JoinAllReady(o2.pending) THEN Return(t, o2, Ok(<< >>)) ELSE Continue(t, o2)
          ELSE /\ Return(t, [o EXCEPT !.pending = o.pending \ {k}, !.failed = TRUE], Panic)
               /\ UNCHANGED <<ledger, origin>>
       /\ UNCHANGED codec

\* get_messages resumes with the answer to the index lookup
IndexResponse(t, ok) ==
    LET o == ops[t]
        ids == NodeIndex(GetMessagesIndex(o.link.appinst, o.link.msgid))
        gm == GetMessagesIds(ids)
    IN /\ Resumed /\ o.pc = "index"
       /\ IF ~ok
          THEN Return(t, [o EXCEPT !.failed = TRUE], Panic)
          ELSE IF gm.tag = "Ok"
          THEN Continue(t, [o EXCEPT !.pc = "fetch", !.ids = ids, !.seen = Len(ledger),
                                     !.pending = 1..Len(ids),
                                     !.got = [i \in 1..Len(ids) |-> NoMsg],
                                     !.nreq = o.nreq + Len(ids)])
          ELSE Return(t, [o EXCEPT !.recv = async_recv_messages(gm, o.link), !.seen = Len(ledger)],
                      RecvResult(o, gm))
       /\ UNCHANGED <<ledger, origin, codec>>

\* get_messages: the answer to the fetch of the k-th id
FetchResponse(t, k, ok) ==
    LET o == ops[t]
        o2 == [o EXCEPT !.pending = o.pending \ {k},
                        !.got = JoinAllStore(o.got, o.pending, k, ledger[o.ids[k]])]
        gm == GetMessagesMsgs(o2.got)
    IN /\ Resumed /\ o.pc = "fetch"
       /\ k \in o.pending
       /\ IF ~ok
          THEN Return(t, [o EXCEPT !.pending = o.pending \ {k}, !.failed = TRUE], Panic)
          ELSE IF JoinAllReady(o2.pending)
          THEN Return(t, [o2 EXCEPT !.recv = async_recv_messages(gm, o.link)], RecvResult(o2, gm))
          ELSE Continue(t, o2)
       /\ UNCHANGED <<ledger, origin, codec>>

\* another application stores a message under the index key of a link of
\* this application: an indexation whose data is no hex string
ForeignPayloads ==
    { [kind |-> "Indexation", index |-> <<48, 49, 48, 49>>, data |-> <<120>>] }

ForeignPost(p) ==
    /\ Resumed /\ Room
    /\ ledger' = Append(ledger, [payload |-> p, parent1 |-> 0, parent2 |-> 0])
    /\ origin' = Append(origin, Foreign)
    /\ UNCHANGED <<ops, borrowed, last, codec>>

\* the await of the operation that ended hands its result to the caller
Resume ==
    /\ ~Resumed
    /\ last' = IdleOp
    /\ UNCHANGED <<ledger, origin, ops, borrowed, codec>>

Next ==
    \/ \E link \in Links, body \in Bodies : ClientSendMessage(link, body)
    \/ \E link \in Links : ClientRecvMessages(link)
    \/ \E link \in Links : ClientRecvMessageStart(link)
    \/ \E t \in Handles, link \in Links, body \in Bodies : RcSendMessage(t, link, body)
    \/ \E t \in Handles, link \in Links : RcRecvMessages(t, link)
    \/ \E t \in Handles, link \in Links : RcRecvMessageStart(t, link)
    \/ \E t \in Tasks, ok \in BOOLEAN, trunk \in 0..MaxLedger, branch \in 0..MaxLedger :
          GetTipsResponse(t, ok, trunk, branch)
    \/ \E t \in Tasks, k \in 1..MaxLedger, ok \in BOOLEAN : PostResponse(t, k, ok)
    \/ \E t \in Tasks, ok \in BOOLEAN : IndexResponse(t, ok)
    \/ \E t \in Tasks, k \in 1..MaxLedger, ok \in BOOLEAN : FetchResponse(t, k, ok)
    \/ \E p \in ForeignPayloads : ForeignPost(p)
    \/ Resume

Spec == Init /\ [][Next]_vars

\* ------------------------------------------------- the codec on its own
\* msg_to_tangle and msg_from_tangle_message are public: a caller applies
\* them to any link, body and native message.
RawPayloads ==
    { NoPayload,
      [kind |-> "Transaction", index |-> << >>, data |-> << >>],
      [kind |-> "Milestone", index |-> << >>, data |-> << >>],
      [kind |-> "Indexation", index |-> <<48, 49>>, data |-> << >>],
      [kind |-> "Indexation", index |-> <<48, 49>>, data |-> <<48>>],
      [kind |-> "Indexation", index |-> <<48, 49>>, data |-> <<120, 121>>],
      [kind |-> "Indexation", index |-> <<48, 49>>, data |-> <<65, 98>>] }

CodecInit ==
    /\ ledger = << >>
    /\ origin = << >>
    /\ ops = [t \in Tasks |-> IdleOp]
    /\ borrowed = 0
    /\ last = IdleOp
    /\ \E link \in Links, body \in CodecBodies, p \in RawPayloads :
          codec = [stage |-> "input", link |-> link, body |-> body,
                   message |-> [payload |-> p, parent1 |-> 0, parent2 |-> 0],
                   result |-> NoResult]

CallMsgToTangle(trunk, branch) ==
    /\ codec.stage = "input"
    /\ codec' = [codec EXCEPT !.stage = "encoded",
                              !.message = msg_to_tangle(TangleMessage(codec.link, codec.body, 0),
                                                        0, trunk, branch).val[1]]
    /\ UNCHANGED <<ledger, origin, ops, borrowed, last>>

CallMsgFromTangleMessage ==
    /\ codec.stage \in {"input", "encoded"}
    /\ codec' = [codec EXCEPT !.stage = IF codec.stage = "encoded" THEN "roundtrip" ELSE "decoded",
                              !.result = msg_from_tangle_message(codec.message, codec.link)]
    /\ UNCHANGED <<ledger, origin, ops, borrowed, last>>

CodecNext ==
    \/ \E trunk \in 0..1, branch \in 0..1 : CallMsgToTangle(trunk, branch)
    \/ CallMsgFromTangleMessage

CodecSpec == CodecInit /\ [][CodecNext]_vars

\* ------------------------------------------- the shared Client on its own
\* The callers of the Rc<RefCell<Client>> handles, with a node that answers
\* every request it is sent (with a result or with an error) and callers
\* that take the results handed to them.
Respond(t) ==
    \/ \E ok \in BOOLEAN, trunk \in 0..MaxLedger, branch \in 0..MaxLedger :
          GetTipsResponse(t, ok, trunk, branch)
    \/ \E k \in 1..MaxLedger, ok \in BOOLEAN : PostResponse(t, k, ok)
    \/ \E ok \in BOOLEAN : IndexResponse(t, ok)
    \/ \E k \in 1..MaxLedger, ok \in BOOLEAN : FetchResponse(t, k, ok)

HandleNext ==
    \/ \E t \in Handles, link \in Links, body \in Bodies : RcSendMessage(t, link, body)
    \/ \E t \in Handles, link \in Links : RcRecvMessages(t, link)
    \/ \E t \in Handles, link \in Links : RcRecvMessageStart(t, link)
    \/ \E t \in Handles : Respond(t)
    \/ Resume

HandleSpec ==
    /\ Init
    /\ [][HandleNext]_vars
    /\ WF_vars(Resume)
    /\ \A t \in Handles : SF_vars(Respond(t))

\* ------------------------------------------------ the fan-outs on their own
\* send_messages takes any Vec<Message> (make_bundle is meant to split a
\* large body into several messages): it is entered with a batch of built
\* messages, and the stored messages are then read back.
BatchMessages == {make_bundle(l.appinst, l.msgid, b, 0, 0, 0).val[1] : l \in Links, b \in Bodies}
Batches == UNION {[1..n -> BatchMessages] : n \in 1..MaxBatch}

SendMessagesEntered(msgs) ==
    [IdleOp EXCEPT !.pc = "post", !.kind = "send_message", !.bundle = msgs,
                   !.pending = 1..Len(msgs), !.out = [i \in 1..Len(msgs) |-> 0],
                   !.nreq = Len(msgs)]

FanoutInit ==
    /\ ledger = << >>
    /\ origin = << >>
    /\ borrowed = 0
    /\ last = IdleOp
    /\ codec = IdleCodec
    /\ \E msgs \in Batches :
          ops = [t \in Tasks |-> IF t = Owner THEN SendMessagesEntered(msgs) ELSE IdleOp]

FanoutNext ==
    \/ \E t \in Tasks, k \in 1..MaxBatch, ok \in BOOLEAN : PostResponse(t, k, ok)
    \/ \E link \in Links : ClientRecvMessages(link)
    \/ \E t \in Tasks, ok \in BOOLEAN : IndexResponse(t, ok)
    \/ \E t \in Tasks, k \in 1..MaxBatch, ok \in BOOLEAN : FetchResponse(t, k, ok)
    \/ Resume

FanoutSpec == FanoutInit /\ [][FanoutNext]_vars

\* ================================================================ claims
\* index key of a link as the wire format defines it: hex(appinst ++ msgid)
KeyOf(l) == HexEncode(l.appinst \o l.msgid)

\* among the first n stored messages: those tagged with the key of link l,
\* and those the transport sent for link l
UnderKey(l, n) == {i \in 1..n : ledger[i].payload.kind # "None" /\ ledger[i].payload.index = KeyOf(l)}
SentTo(l, n) == {i \in 1..n : origin[i].by = "transport" /\ origin[i].link = l}

\* the operation that just ended was not refused and every node request it
\* made was answered
Served == last.pc = "done" /\ last.nreq > 0 /\ ~last.failed
IsErr(r, e) == r.tag = "Err" /\ r.err = e

\* receive operations whose index lookup has been answered
Fetching == {t \in Tasks : ops[t].pc = "fetch"}
LookedUp(o) == o.kind \in {"recv_messages", "recv_message"} /\ o.recv.tag = "Ok"

\* C1: whenever the underlying receive yields two or more messages,
\* recv_message (owned or shared) returns MessageNotUnique and no message.
C1_NotUnique ==
    (last.pc = "done" /\ last.kind = "recv_message" /\ last.recv.tag = "Ok" /\ Len(last.recv.val) >= 2)
        => IsErr(last.result, "MessageNotUnique")

\* C2: a recv_message (owned or shared) that ran while the ledger held no
\* message under the link's index key returns MessageLinkNotFound.
C2_LinkNotFound ==
    (Served /\ last.kind = "recv_message" /\ UnderKey(last.link, Len(ledger)) = {})
        => IsErr(last.result, "MessageLinkNotFound")

C2_Witness ==
    /\ Served /\ last.kind = "recv_message" /\ last.via = "shared"
    /\ UnderKey(last.link, Len(ledger)) = {} /\ Len(ledger) > 0
    /\ IsErr(last.result, "MessageLinkNotFound")

\* C3: when the only message stored under the key of L at lookup time is one
\* that send_message posted for link L with body b, recv_message(L) returns
\* a message whose body is b.
C3_SendThenRecv ==
    (/\ Served /\ last.kind = "recv_message"
     /\ Cardinality(UnderKey(last.link, last.seen)) = 1
     /\ UnderKey(last.link, last.seen) \subseteq SentTo(last.link, last.seen)
     /\ Cardinality(SentTo(last.link, last.seen)) = 1)
        => /\ last.result.tag = "Ok"
           /\ \A i \in SentTo(last.link, last.seen) : last.result.val[1].body = origin[i].body

C3_Witness ==
    /\ Served /\ last.kind = "recv_message" /\ last.via = "owned"
    /\ UnderKey(last.link, last.seen) = {1} /\ SentTo(last.link, last.seen) = {1}
    /\ origin[1].body = <<1, 2>>
    /\ last.result.tag = "Ok" /\ last.result.val[1].body = <<1, 2>>

\* C4: recv_messages on a link whose index lookup finds no message id
\* returns an empty sequence successfully.
C4_EmptyOnNoMatch ==
    (Served /\ last.kind = "recv_messages" /\ UnderKey(last.link, Len(ledger)) = {})
        => (last.result.tag = "Ok" /\ Len(last.result.val) = 0)

C4_Witness ==
    /\ Served /\ last.kind = "recv_messages" /\ UnderKey(last.link, Len(ledger)) = {}
    /\ Len(ledger) > 0
    /\ last.result.tag = "Ok" /\ Len(last.result.val) = 0

\* C5: when N >= 1 messages were sent to L before the lookup and nothing
\* else is stored under the key of L, recv_messages(L) returns N messages
\* whose bodies are, as a multiset, the bodies sent, in any fetch order.
C5_AllBodies ==
    (/\ Served /\ last.kind = "recv_messages"
     /\ SentTo(last.link, last.seen) # {}
     /\ UnderKey(last.link, last.seen) \subseteq SentTo(last.link, last.seen))
        => /\ last.result.tag = "Ok"
           /\ Len(last.result.val) = Cardinality(SentTo(last.link, last.seen))
           /\ \A k \in 1..Len(last.result.val) : last.result.val[k].body \in Bodies
           /\ \A b \in Bodies :
                Cardinality({k \in 1..Len(last.result.val) : last.result.val[k].body = b})
                  = Cardinality({i \in SentTo(last.link, last.seen) : origin[i].body = b})

C5_Witness ==
    /\ Served /\ last.kind = "recv_messages"
    /\ SentTo(last.link, last.seen) = {1, 2} /\ UnderKey(last.link, last.seen) = {1, 2}
    /\ origin[1].body # origin[2].body
    /\ last.result.tag = "Ok" /\ Len(last.result.val) = 2

\* C6: an operation started on the shared handle while another operation on
\* the same Client is in progress ends at once with TransportNotAvailable,
\* without ever being suspended and without any node request.
C6_RefusedAtOnce ==
    /\ \A t \in Tasks : ops[t].pc # "idle" => ~ops[t].busy
    /\ (last.pc = "done" /\ last.busy) => (IsErr(last.result, "TransportNotAvailable") /\ last.nreq = 0)

C6_Witness ==
    /\ last.pc = "done" /\ last.busy /\ last.kind = "send_message"
    /\ IsErr(last.result, "TransportNotAvailable")
    /\ \E u \in Tasks : ops[u].via = "shared" /\ ops[u].pc = "fetch"

\* C7: decoding the native message that encoding built for body b under
\* link l succeeds and yields body b.
C7_RoundTrip ==
    codec.stage = "roundtrip" => (codec.result.tag = "Ok" /\ codec.result.val.body = codec.body)

C7_Witness ==
    /\ codec.stage = "roundtrip" /\ codec.body = <<1, 171>>
    /\ codec.result.tag = "Ok" /\ codec.result.val.body = <<1, 171>>

\* C8: the key the send path tags a message with and the key the receive
\* path looks up are both hex(appinst ++ msgid) of the link: every message
\* sent for a link carries that key, every looked-up id is stored under it,
\* and a lookup finds every message already sent for its link.
C8_SameKey ==
    /\ \A i \in 1..Len(ledger) :
          origin[i].by = "transport" => ledger[i].payload.index = KeyOf(origin[i].link)
    /\ \A t \in Fetching : \A k \in 1..Len(ops[t].ids) :
          ledger[ops[t].ids[k]].payload.index = KeyOf(ops[t].link)
    /\ \A t \in Fetching : \A i \in SentTo(ops[t].link, ops[t].seen) :
          \E k \in 1..Len(ops[t].ids) : ops[t].ids[k] = i
    /\ (Served /\ LookedUp(last)) =>
          \A i \in SentTo(last.link, last.seen) : \E k \in 1..Len(last.ids) : last.ids[k] = i

C8_Witness ==
    \E t \in Fetching : /\ SentTo(ops[t].link, ops[t].seen) = {1, 2}
                        /\ ops[t].ids = <<1, 2>>
                        /\ ops[t].link.appinst # ops[t].link.msgid

\* C9: links with components of the same lengths that differ in a byte have
\* different index keys, so a receive for one link never looks up a message
\* that was sent under another link.
LinkSpace == {TangleAddress(a, m) : a \in CodecBodies \ {<< >>}, m \in CodecBodies \ {<< >>}}
KeyInjective ==
    \A l1 \in LinkSpace : \A l2 \in LinkSpace :
        (Len(l1.appinst) = Len(l2.appinst) /\ Len(l1.msgid) = Len(l2.msgid) /\ l1 # l2)
            => MakeBundleIndex(l1.appinst, l1.msgid) # GetMessagesIndex(l2.appinst, l2.msgid)

C9_Injective ==
    /\ KeyInjective
    /\ \A t \in Fetching : \A k \in 1..Len(ops[t].ids) :
          origin[ops[t].ids[k]].by = "transport" => origin[ops[t].ids[k]].link = ops[t].link
    /\ (Served /\ LookedUp(last)) =>
          \A k \in 1..Len(last.ids) :
              origin[last.ids[k]].by = "transport" => origin[last.ids[k]].link = last.link

C9_Witness ==
    /\ Served /\ last.kind = "recv_messages" /\ Len(last.ids) = 1
    /\ \E i \in 1..Len(ledger) : i <= last.seen /\ origin[i].by = "transport" /\ origin[i].link # last.link
    /\ origin[last.ids[1]].link = last.link

\* C10: decoding a native message whose payload is not of the indexation
\* kind returns the UnexpectedPayloadType error as an error value.
C10_UnexpectedPayloadType ==
    (codec.stage = "decoded" /\ codec.message.payload.kind # "Indexation")
        => IsErr(codec.result, "UnexpectedPayloadType")

\* C11: when the index lookup returned at least one id and the fetch of the
\* bodies yields nothing, the receive fails with TransactionContentsNotFound,
\* returned to the caller.
C11_ContentsNotFound ==
    (/\ last.pc = "done" /\ last.kind \in {"recv_messages", "recv_message"}
     /\ last.ids # << >> /\ last.failed)
        => IsErr(last.result, "TransactionContentsNotFound")

\* C12: when the tip request fails, send_message returns the error value
\* ClientOperationFailure and no message has been submitted.
C12_TipsFailure ==
    (last.pc = "done" /\ last.kind = "send_message" /\ last.failed /\ last.bundle = << >>)
        => (IsErr(last.result, "ClientOperationFailure") /\ last.nreq = 1)

\* C13: when a submission of the send fan-out fails, the send returns the
\* error value ClientOperationFailure for the whole batch.
C13_PostFailure ==
    (last.pc = "done" /\ last.kind = "send_message" /\ last.failed /\ last.bundle # << >>)
        => IsErr(last.result, "ClientOperationFailure")

\* C14: a node request failure during recv_messages, in the index lookup or
\* in a body fetch, is returned to the caller as ClientOperationFailure.
C14_RecvFailure ==
    (last.pc = "done" /\ last.kind = "recv_messages" /\ last.failed)
        => IsErr(last.result, "ClientOperationFailure")

\* C15: when an operation ends, none of the sub-requests its fan-out issued
\* is left unanswered.
C15_NoAbandoned ==
    last.pc = "done" => last.pending = {}

\* C16: when every submission succeeds, send_messages returns one node
\* assigned identifier per input message, and only once every submission
\* has been answered.
C16_OneIdPerMessage ==
    (last.pc = "done" /\ last.kind = "send_message" /\ ~last.failed /\ last.bundle # << >>)
        => /\ last.result.tag = "Ok"
           /\ last.pending = {}
           /\ Len(last.out) = Len(last.bundle)
           /\ \A k \in 1..Len(last.out) : last.out[k] \in 1..Len(ledger)
           /\ Cardinality({last.out[k] : k \in 1..Len(last.out)}) = Len(last.bundle)

C16_Witness ==
    /\ last.pc = "done" /\ last.kind = "send_message" /\ ~last.failed
    /\ Len(last.bundle) = 2 /\ last.out = <<2, 1>> /\ last.result.tag = "Ok"

\* C17: at most one operation started through a handle to the shared Client
\* holds exclusive access to it, and an operation in progress holds that
\* access at every point, also while suspended at a node request.
C17_MutualExclusion ==
    /\ Cardinality({t \in Handles : ops[t].pc # "idle"}) <= 1
    /\ \A t \in Handles : ops[t].pc # "idle" => (ops[t].via = "shared" /\ borrowed = t)
    /\ ops[Owner].pc # "idle" => ops[Owner].via = "owned"

C17_Witness ==
    /\ \E t \in Handles : ops[t].pc = "post" /\ borrowed = t
    /\ last.pc = "done" /\ IsErr(last.result, "TransportNotAvailable")

\* C18: the exclusive access to the shared Client is given back whenever
\* the operation holding it ends, with a result, an error or a panic: if the
\* node answers every request the access is always free again later on, and
\* an operation refused with TransportNotAvailable was started while another
\* operation on that Client was in progress.
C18_Released ==
    /\ [](~SharedInProgress => borrowed = 0)
    /\ []((last.pc = "done" /\ IsErr(last.result, "TransportNotAvailable")) => last.busy)
    /\ []((last.pc = "done" /\ last.via = "shared" /\ ~last.busy)
              => ~IsErr(last.result, "TransportNotAvailable"))
    /\ (borrowed # 0) ~> (borrowed = 0)

C18_Witness ==
    /\ last.pc = "done" /\ last.via = "shared" /\ ~last.busy
    /\ last.failed /\ last.result = Panic
    /\ borrowed = 0 /\ Len(ledger) > 0

\* C19: one send_message makes one tip request, which is answered before
\* anything is submitted; it builds one ledger message, whose two parents are
\* the two tips of that answer, also when the node's tips have moved on by
\* the time the message is submitted.
C19_TipsThenPost ==
    /\ \A t \in Tasks :
          /\ ops[t].pc = "get_tips"
                => (ops[t].nreq = 1 /\ ops[t].bundle = << >> /\ ops[t].pending = {})
          /\ (ops[t].pc = "post" /\ ops[t].kind = "send_message")
                => /\ ops[t].nreq = 2 /\ Len(ops[t].bundle) = 1
                   /\ ops[t].bundle[1].parent1 = ops[t].tips[1]
                   /\ ops[t].bundle[1].parent2 = ops[t].tips[2]
    /\ (last.pc = "done" /\ last.kind = "send_message" /\ last.result.tag = "Ok")
          => /\ last.nreq = 2 /\ Len(last.bundle) = 1 /\ Len(last.out) = 1
             /\ ledger[last.out[1]].parent1 = last.tips[1]
             /\ ledger[last.out[1]].parent2 = last.tips[2]

\* a message attached to tips that were taken before another message arrived
C19_Witness ==
    /\ last.pc = "done" /\ last.kind = "send_message" /\ last.result.tag = "Ok"
    /\ last.out = <<2>> /\ last.tips = <<0, 0>>
    /\ ledger[1].parent1 = 0 /\ ledger[2].parent1 = 0 /\ ledger[2].parent2 = 0

\* C20: the results of a fan-out are positional, whatever the order in which
\* the node answers: the k-th identifier send_messages holds is the one the
\* node gave to the k-th input message, and the k-th message get_messages
\* holds is the one fetched for the k-th looked-up id.
C20_Positional ==
    /\ \A t \in Tasks :
          /\ ops[t].pc = "post"
                => \A k \in 1..Len(ops[t].bundle) :
                      IF k \in ops[t].pending THEN ops[t].out[k] = 0
                      ELSE /\ ops[t].out[k] \in 1..Len(ledger)
                           /\ ledger[ops[t].out[k]] = ops[t].bundle[k]
          /\ ops[t].pc = "fetch"
                => \A k \in 1..Len(ops[t].ids) :
                      IF k \in ops[t].pending THEN ops[t].got[k] = NoMsg
                      ELSE ops[t].got[k] = ledger[ops[t].ids[k]]
    /\ (last.pc = "done" /\ last.kind = "send_message" /\ ~last.failed)
          => /\ Len(last.out) = Len(last.bundle)
             /\ \A k \in 1..Len(last.bundle) : ledger[last.out[k]] = last.bundle[k]
    /\ (last.pc = "done" /\ last.kind = "recv_messages" /\ ~last.failed /\ last.ids # << >>)
          => /\ Len(last.got) = Len(last.ids)
             /\ \A k \in 1..Len(last.ids) : last.got[k] = ledger[last.ids[k]]

\* two different messages under one key, the second one fetched first
C20_Witness ==
    /\ ops[Owner].pc = "fetch" /\ ops[Owner].ids = <<1, 2>> /\ ops[Owner].pending = {1}
    /\ ledger[1] # ledger[2]
    /\ ops[Owner].got[2] = ledger[2]

====
